---- MODULE Spec2Model ----
(***************************************************************************)
(* The content-graph document store of tequila (storage/space.py,          *)
(* storage/docs.py): a Space is a pickled networkx MultiGraph plus one     *)
(* JSON blob per document, guarded by a filelock file lock.  Every public  *)
(* operation (read_doc, write_doc, upsert_doc) runs inside Space.mutex():  *)
(* take the lock, load the graph, run the body, store the graph unless the *)
(* body raised, release the lock.  A session is modelled step by step,     *)
(* one step per await of the code, so that an I/O error or a cancellation  *)
(* can end it at each of them.                                             *)
(***************************************************************************)
EXTENDS Integers, FiniteSets, Sequences, TLC

\* ------------------------------------------------------------------ bounds

\* Sessions started in one behaviour: of tasks that each have their own Space
\* object, and of tasks that share one.
MaxSessions == 3

MaxSharedSessions == 2

Titles == {"A", "B", "C"}

\* The inputs of the sessions: articles are written for ArticleTitles and link
\* to LinkTargets (an article, itself for "A", and a title that no article is
\* written for); placeholders are upserted directly as InputProtos.
ArticleTitles == {"A", "C"}

LinkTargets == {"A", "B"}

LinkAliasSets == {{"y"}}

\* asyncio tasks, and the Space objects (each with its own lock object).
Procs == {"t1", "t2"}

Instances == {"s1", "s2"}

\* ------------------------------------------------------------------ documents

NoDoc == [kind |-> "none"]

ProtoArticle(title, alt_title) ==
  [kind |-> "proto_article", title |-> title, alt_title |-> alt_title]

Article(title, alt_title, summary, links) ==
  [kind |-> "article", title |-> title, alt_title |-> alt_title,
   summary |-> summary, links |-> links]

\* Article.links: linked title -> alias set.
LinkMaps == UNION {[S -> LinkAliasSets] : S \in SUBSET LinkTargets}

InputProtos ==
  {ProtoArticle("B", {"x"}), ProtoArticle("B", {"z"}), ProtoArticle("A", {"x"})}

InputArticles == {Article(t, {}, "s", l) : t \in ArticleTitles, l \in LinkMaps}

InputDocs == InputProtos \cup InputArticles

\* Documents handed to write_doc directly.
WriteDocs == {ProtoArticle("B", {"x"}), Article("A", {}, "s", [t \in {"B"} |-> {"y"}])}

\* ------------------------------------------------------------------ MultiGraph

\* networkx MultiGraph: undirected, an edge is identified by its two ends and
\* its key; adding an edge that exists changes nothing.
EmptyGraph == [nodes |-> {}, edges |-> {}]

Edge(u, v, key) == [ends |-> {u, v}, key |-> key]

has_node(G, n) == n \in G.nodes

add_node(G, n) == [G EXCEPT !.nodes = @ \cup {n}]

\* Variant of add_edge: the edge is keyed by its target.
add_edge_keyed_by_target(G, u, v, key) ==
  [nodes |-> G.nodes \cup {u, v}, edges |-> G.edges \cup {Edge(u, v, v)}]

add_edge(G, u, v, key) ==
  [nodes |-> G.nodes \cup {u, v}, edges |-> G.edges \cup {Edge(u, v, key)}]

\* Variant of remove_edge: the edge stays.
remove_edge_kept(G, u, v, key) == G

remove_edge(G, u, v, key) == [G EXCEPT !.edges = @ \ {Edge(u, v, key)}]

edges(G, n) == {e \in G.edges : n \in e.ends}

remove_node(G, n) == [nodes |-> G.nodes \ {n}, edges |-> G.edges \ edges(G, n)]

\* The other end of edge e seen from n (n itself for a self loop).
Target(e, n) == IF e.ends = {n} THEN n ELSE CHOOSE t \in e.ends : t # n

\* docs.py 222-226: targets of the edges at `title` whose key is `title`.
OutLinks(G, title) == {Target(e, title) : e \in {f \in edges(G, title) : f.key = title}}

\* ------------------------------------------------------------------ state

VARIABLES
  gfile,      \* the pickled graph at _graph_file, or NoGraph when the file is absent
  blobs,      \* title -> the document stored at docs/<title>.json, or NoDoc
  flock,      \* the Space object whose descriptor holds the OS file lock, or NoInst
  counter,    \* per Space object: lock_counter of its lock object
  inst,       \* task -> the Space object it uses
  pc,         \* task -> where it is in its session
  op,         \* task -> the operation of its session
  g,          \* task -> the in-memory graph of its session
  loc,        \* task -> locals of the body
  outcome,    \* task -> how its session ends: "none", "ok", "error", "timeout"
  pre,        \* task -> the store as its session loaded it (history)
  nstore,     \* task -> graph stores of its session (history)
  hist,       \* the last finished session (history)
  api,        \* the operations the callers use
  budget,     \* sessions that can still be started
  lk,         \* a call of parse_links: its input, position and result
  hl,         \* a call of replace_text_with_links: its input, position and result
  rk          \* a call of _get_proto_with_related_articles: its input, position and result

\* The state of the Space and of its callers' sessions.
space == <<gfile, blobs, flock, counter, inst, pc, op, g, loc, outcome, pre, nstore,
           hist, api, budget>>

\* The state of the calls that are modelled on their own.
pure == <<lk, hl, rk>>

vars == <<gfile, blobs, flock, counter, inst, pc, op, g, loc, outcome, pre, nstore,
          hist, api, budget, lk, hl, rk>>

\* No call of parse_links, replace_text_with_links or the ranker is modelled.
NoLk == [pc |-> "off"]

NoHl == [pc |-> "off"]

NoRk == [pc |-> "off"]

NoGraph == [nodes |-> {}, edges |-> {}, absent |-> TRUE]

NoInst == "none"

NoOp == [type |-> "none"]

NoSnap == [loaded |-> FALSE]

NoLoc == [content |-> NoDoc, wg |-> FALSE, todo |-> {}, cur |-> "", wdoc |-> NoDoc,
          result |-> NoDoc]

NoHist == [op |-> NoOp, chain |-> FALSE, acc |-> {}]

Ops ==
  {[type |-> "read", title |-> t] : t \in Titles}
    \cup {[type |-> "upsert", doc |-> d] : d \in InputDocs}
    \cup {[type |-> "write", doc |-> d, wg |-> w] : d \in WriteDocs, w \in BOOLEAN}

\* Variant of SpaceRead: a new MultiGraph whatever the file holds.
SpaceReadNew(f) == EmptyGraph

\* space.py 35-41: the unpickled graph, or a new MultiGraph when there is no file.
SpaceRead(f) == IF f = NoGraph THEN EmptyGraph ELSE f

\* Variant of ReadDoc: the blob is read without asking the graph for the node.
ReadDocIgnoresGraph(B, G, name) == B[name]

\* docs.py 56-64: the document only when the graph has the node and the blob exists.
ReadDoc(B, G, name) == IF has_node(G, name) THEN B[name] ELSE NoDoc

\* What read_doc returns on a stored Space.
Stored(f, B, name) == ReadDoc(B, SpaceRead(f), name)

\* ------------------------------------------------------------------ body steps

\* docs.py 119-134, up to the first await of _write_doc: the node is added, and
\* an article with links goes on to upsert a placeholder per link.
EnterWrite(G, content, wg) ==
  IF wg /\ content.kind = "article" /\ DOMAIN content.links # {}
    THEN [pc |-> "link_upsert", g |-> add_node(G, content.title),
          todo |-> DOMAIN content.links]
    ELSE [pc |-> "write_blob",
          g |-> IF wg THEN add_node(G, content.title) ELSE G, todo |-> {}]

\* docs.py 229-247: the clean-up loop, then the write of the new article.
NextCleanup(G, todo, content) ==
  IF todo = {} THEN EnterWrite(G, content, TRUE)
  ELSE [pc |-> "cleanup", g |-> G, todo |-> todo]

\* docs.py 125-140: the link loop, then the blob of the document itself.
NextLink(todo) == IF todo = {} THEN "write_blob" ELSE "link_upsert"

InitSpace ==
  /\ gfile = NoGraph
  /\ blobs = [t \in Titles |-> NoDoc]
  /\ flock = NoInst
  /\ counter = [i \in Instances |-> 0]
  /\ pc = [p \in Procs |-> "idle"]
  /\ op = [p \in Procs |-> NoOp]
  /\ g = [p \in Procs |-> EmptyGraph]
  /\ loc = [p \in Procs |-> NoLoc]
  /\ outcome = [p \in Procs |-> "none"]
  /\ pre = [p \in Procs |-> NoSnap]
  /\ nstore = [p \in Procs |-> 0]
  /\ hist = NoHist

InitStore == InitSpace /\ lk = NoLk /\ hl = NoHl /\ rk = NoRk

\* dependencies.py 16-28: get_space builds a Space, with its own lock object,
\* for every request; api.py and pipeline.py call read_doc and upsert_doc only.
Init ==
  /\ InitStore
  /\ inst = [p \in Procs |-> IF p = "t1" THEN "s1" ELSE "s2"]
  /\ api = {"read", "upsert"}
  /\ budget = MaxSessions

\* The same with callers of write_doc (docs.py 143-169).
InitWrite ==
  /\ InitStore
  /\ inst = [p \in Procs |-> IF p = "t1" THEN "s1" ELSE "s2"]
  /\ api = {"read", "upsert", "write"}
  /\ budget = MaxSessions

\* pipeline.py 17-36, 39-47: a Space object is handed on as an argument, so two
\* tasks can also run their sessions on one object.
InitShared ==
  /\ InitStore
  /\ inst \in {[p \in Procs |-> "s1"], [p \in Procs |-> IF p = "t1" THEN "s1" ELSE "s2"]}
  /\ api = {"read", "upsert"}
  /\ budget = MaxSharedSessions

\* A caller enters read_doc, write_doc or upsert_doc (docs.py 87, 166, 271).
Start(p) ==
  /\ pc[p] = "idle"
  /\ budget > 0
  /\ pc' = [pc EXCEPT ![p] = "acquire"]
  /\ budget' = budget - 1
  /\ outcome' = [outcome EXCEPT ![p] = "none"]
  /\ UNCHANGED <<pure, gfile, blobs, flock, counter, inst, op, g, loc, pre, nstore, hist, api>>

\* space.py 48, `async with self._lock`: filelock takes the OS lock on the lock
\* file through this object's descriptor; an object that already holds it only
\* counts the acquisition (lock_counter) and does not wait.
CanAcquire(holder, i) == holder \in {NoInst, i}

Acquire(p) ==
  /\ pc[p] = "acquire"
  /\ CanAcquire(flock, inst[p])
  /\ flock' = inst[p]
  /\ counter' = [counter EXCEPT ![inst[p]] = @ + 1]
  /\ pc' = [pc EXCEPT ![p] = "load"]
  /\ UNCHANGED <<pure, gfile, blobs, inst, op, g, loc, outcome, pre, nstore, hist, api, budget>>

\* space.py 33, timeout=60: the lock stayed with another object for the whole
\* wait; filelock raises Timeout out of `async with` and the call ends there.
TimeoutProceeds == "load"

TimeoutPc == "idle"

Timeout(p) ==
  /\ pc[p] = "acquire"
  /\ ~CanAcquire(flock, inst[p])
  /\ pc' = [pc EXCEPT ![p] = TimeoutPc]
  /\ outcome' = [outcome EXCEPT ![p] = "timeout"]
  /\ UNCHANGED <<pure, gfile, blobs, flock, counter, inst, op, g, loc, pre, nstore, hist, api,
                 budget>>

\* The first step of the body of each operation.
BodyEntry(o, G) ==
  CASE o.type = "read" -> [pc |-> "read_doc", g |-> G, todo |-> {}]
    [] o.type = "upsert" -> [pc |-> "upsert_read", g |-> G, todo |-> {}]
    [] o.type = "write" -> EnterWrite(G, o.doc, o.wg)

\* space.py 49: graph = await self._read(), then the body starts on the
\* arguments of the call, which are first used here.
Enter(p, ops) ==
  /\ pc[p] = "load"
  /\ \E o \in ops :
       LET e == BodyEntry(o, SpaceRead(gfile)) IN
         /\ op' = [op EXCEPT ![p] = o]
         /\ g' = [g EXCEPT ![p] = e.g]
         /\ pc' = [pc EXCEPT ![p] = e.pc]
         /\ loc' = [loc EXCEPT ![p] =
                      [NoLoc EXCEPT !.todo = e.todo,
                                    !.content = IF o.type = "write" THEN o.doc ELSE NoDoc,
                                    !.wg = IF o.type = "write" THEN o.wg ELSE FALSE]]
  /\ pre' = [pre EXCEPT ![p] = [loaded |-> TRUE, gfile |-> gfile, blobs |-> blobs]]
  /\ UNCHANGED <<pure, gfile, blobs, flock, counter, inst, outcome, nstore, hist, api, budget>>

\* The calls of api.py and pipeline.py, with any of the modelled arguments.
Load(p) == Enter(p, {x \in Ops : x.type \in api})

\* docs.py 87-88: read_doc's body.
ReadStep(p) ==
  /\ pc[p] = "read_doc"
  /\ loc' = [loc EXCEPT ![p].result = ReadDoc(blobs, g[p], op[p].title)]
  /\ pc' = [pc EXCEPT ![p] = "store"]
  /\ UNCHANGED <<pure, gfile, blobs, flock, counter, inst, op, g, outcome, pre, nstore, hist,
                 api, budget>>

\* Variant of MergeProto: the incoming alias set replaces the stored one.
MergeProtoReplace(readed, content) ==
  [readed EXCEPT !.alt_title = content.alt_title]

\* docs.py 205-210: alias sets of two placeholders are merged into the stored one.
MergeProto(readed, content) ==
  [readed EXCEPT !.alt_title = @ \cup content.alt_title]

\* Variant of UpsertBranch: a stored placeholder is kept when an article comes in.
UpsertBranchKeepsPlaceholder(readed, content, G) ==
  IF readed = NoDoc
    THEN EnterWrite(G, content, TRUE) @@ [content |-> content, wg |-> TRUE]
  ELSE IF readed.kind = "proto_article"
    THEN IF content.kind = "proto_article"
           THEN EnterWrite(G, MergeProto(readed, content), FALSE)
                  @@ [content |-> MergeProto(readed, content), wg |-> FALSE]
           ELSE [pc |-> "store", g |-> G, todo |-> {}, content |-> content, wg |-> FALSE]
  ELSE IF content.kind = "proto_article"
    THEN [pc |-> "store", g |-> G, todo |-> {}, content |-> content, wg |-> FALSE]
  ELSE NextCleanup(G, OutLinks(G, readed.title), content)
         @@ [content |-> content, wg |-> TRUE]

\* Variant of UpsertBranch: an incoming placeholder is written over a stored article.
UpsertBranchNoPrecedence(readed, content, G) ==
  IF readed # NoDoc /\ readed.kind = "proto_article" /\ content.kind = "proto_article"
    THEN EnterWrite(G, MergeProto(readed, content), FALSE)
           @@ [content |-> MergeProto(readed, content), wg |-> FALSE]
  ELSE IF readed # NoDoc /\ readed.kind = "article" /\ content.kind = "article"
    THEN NextCleanup(G, OutLinks(G, readed.title), content)
           @@ [content |-> content, wg |-> TRUE]
  ELSE EnterWrite(G, content, TRUE) @@ [content |-> content, wg |-> TRUE]

\* docs.py 199-227: _upsert_doc reads the stored document and takes one branch
\* of the merge table.
UpsertBranch(readed, content, G) ==
  IF readed = NoDoc
    THEN EnterWrite(G, content, TRUE) @@ [content |-> content, wg |-> TRUE]
  ELSE IF readed.kind = "proto_article"
    THEN IF content.kind = "proto_article"
           THEN EnterWrite(G, MergeProto(readed, content), FALSE)
                  @@ [content |-> MergeProto(readed, content), wg |-> FALSE]
           ELSE EnterWrite(G, content, TRUE) @@ [content |-> content, wg |-> TRUE]
  ELSE IF content.kind = "proto_article"
    THEN [pc |-> "store", g |-> G, todo |-> {}, content |-> content, wg |-> FALSE]
  ELSE NextCleanup(G, OutLinks(G, readed.title), content)
         @@ [content |-> content, wg |-> TRUE]

UpsertRead(p) ==
  /\ pc[p] = "upsert_read"
  /\ LET b == UpsertBranch(ReadDoc(blobs, g[p], op[p].doc.title), op[p].doc, g[p]) IN
       /\ pc' = [pc EXCEPT ![p] = b.pc]
       /\ g' = [g EXCEPT ![p] = b.g]
       /\ loc' = [loc EXCEPT ![p] =
                    [NoLoc EXCEPT !.content = b.content, !.wg = b.wg, !.todo = b.todo]]
  /\ UNCHANGED <<pure, gfile, blobs, flock, counter, inst, op, outcome, pre, nstore, hist,
                 api, budget>>

\* Variants of IsOrphan: the kind test inverted; the edge test left out.
IsOrphanArticle(G, link, link_doc) ==
  link_doc.kind = "article" /\ edges(G, link) = {}

IsOrphanAnyProto(G, link, link_doc) == link_doc.kind = "proto_article"

\* docs.py 238-240: a target that lost its last edge and is a placeholder.
IsOrphan(G, link, link_doc) ==
  link_doc.kind = "proto_article" /\ edges(G, link) = {}

\* docs.py 229-244: one round of the clean-up loop, up to the delete of the blob.
CleanupLink(G, title, link, link_doc) ==
  IF link_doc = NoDoc THEN [g |-> G, delete |-> FALSE]
  ELSE LET G1 == remove_edge(G, title, link, title) IN
         IF IsOrphan(G1, link, link_doc)
           THEN [g |-> remove_node(G1, link), delete |-> TRUE]
           ELSE [g |-> G1, delete |-> FALSE]

CleanupRead(p) ==
  /\ pc[p] = "cleanup"
  /\ \E link \in loc[p].todo :
       LET c == CleanupLink(g[p], op[p].doc.title, link, ReadDoc(blobs, g[p], link))
           rest == loc[p].todo \ {link}
       IN IF c.delete
            THEN /\ g' = [g EXCEPT ![p] = c.g]
                 /\ pc' = [pc EXCEPT ![p] = "cleanup_delete"]
                 /\ loc' = [loc EXCEPT ![p].todo = rest, ![p].cur = link]
            ELSE LET n == NextCleanup(c.g, rest, loc[p].content) IN
                   /\ g' = [g EXCEPT ![p] = n.g]
                   /\ pc' = [pc EXCEPT ![p] = n.pc]
                   /\ loc' = [loc EXCEPT ![p].todo = n.todo]
  /\ UNCHANGED <<pure, gfile, blobs, flock, counter, inst, op, outcome, pre, nstore, hist,
                 api, budget>>

\* docs.py 244: await opendal.delete(...) of the orphaned placeholder.
CleanupDelete(p) ==
  /\ pc[p] = "cleanup_delete"
  /\ blobs' = [blobs EXCEPT ![loc[p].cur] = NoDoc]
  /\ LET n == NextCleanup(g[p], loc[p].todo, loc[p].content) IN
       /\ g' = [g EXCEPT ![p] = n.g]
       /\ pc' = [pc EXCEPT ![p] = n.pc]
       /\ loc' = [loc EXCEPT ![p].todo = n.todo, ![p].cur = ""]
  /\ UNCHANGED <<pure, gfile, flock, counter, inst, op, outcome, pre, nstore, hist, api, budget>>

\* docs.py 127-132 with 199-218: the nested _upsert_doc of Placeholder(href,
\* alters): what it writes, if anything, and whether it adds the node.
LinkUpsert(readed, href, alters) ==
  IF readed = NoDoc
    THEN [write |-> TRUE, doc |-> ProtoArticle(href, alters), node |-> TRUE]
  ELSE IF readed.kind = "proto_article"
    THEN [write |-> TRUE, doc |-> MergeProto(readed, ProtoArticle(href, alters)),
          node |-> FALSE]
  ELSE [write |-> FALSE, doc |-> NoDoc, node |-> FALSE]

LinkRead(p) ==
  /\ pc[p] = "link_upsert"
  /\ \E href \in loc[p].todo :
       LET title == loc[p].content.title
           u == LinkUpsert(ReadDoc(blobs, g[p], href), href, loc[p].content.links[href])
           rest == loc[p].todo \ {href}
       IN IF u.write
            THEN /\ g' = [g EXCEPT ![p] = IF u.node THEN add_node(@, href) ELSE @]
                 /\ pc' = [pc EXCEPT ![p] = "link_write"]
                 /\ loc' = [loc EXCEPT ![p].todo = rest, ![p].cur = href, ![p].wdoc = u.doc]
            ELSE /\ g' = [g EXCEPT ![p] = add_edge(@, title, href, title)]
                 /\ pc' = [pc EXCEPT ![p] = NextLink(rest)]
                 /\ loc' = [loc EXCEPT ![p].todo = rest]
  /\ UNCHANGED <<pure, gfile, blobs, flock, counter, inst, op, outcome, pre, nstore, hist,
                 api, budget>>

\* docs.py 137-140 inside the nested call, then 134: the placeholder's blob is
\* written and the edge keyed by the linking article is added.
LinkWrite(p) ==
  /\ pc[p] = "link_write"
  /\ blobs' = [blobs EXCEPT ![loc[p].cur] = loc[p].wdoc]
  /\ g' = [g EXCEPT ![p] = add_edge(@, loc[p].content.title, loc[p].cur, loc[p].content.title)]
  /\ pc' = [pc EXCEPT ![p] = NextLink(loc[p].todo)]
  /\ loc' = [loc EXCEPT ![p].cur = "", ![p].wdoc = NoDoc]
  /\ UNCHANGED <<pure, gfile, flock, counter, inst, op, outcome, pre, nstore, hist, api, budget>>

\* docs.py 137-140: the document's own blob.
WriteBlob(p) ==
  /\ pc[p] = "write_blob"
  /\ blobs' = [blobs EXCEPT ![loc[p].content.title] = loc[p].content]
  /\ pc' = [pc EXCEPT ![p] = "store"]
  /\ UNCHANGED <<pure, gfile, flock, counter, inst, op, g, loc, outcome, pre, nstore, hist,
                 api, budget>>

\* space.py 54-55: the body ended without an exception, the graph is stored.
Store(p) ==
  /\ pc[p] = "store"
  /\ gfile' = g[p]
  /\ nstore' = [nstore EXCEPT ![p] = @ + 1]
  /\ pc' = [pc EXCEPT ![p] = "release"]
  /\ outcome' = [outcome EXCEPT ![p] = IF @ = "none" THEN "ok" ELSE @]
  /\ UNCHANGED <<pure, blobs, flock, counter, inst, op, g, loc, pre, hist, api, budget>>

\* The awaits of a session after the lock is taken: an I/O error or a
\* cancellation raised there leaves through `except: raise` (space.py 52-53),
\* past the store of the graph; the body's frames and its graph are dropped.
InSession == {"load", "read_doc", "upsert_read", "cleanup", "cleanup_delete",
              "link_upsert", "link_write", "write_blob", "store"}

\* Variants of FailPc: the graph is stored on the error path too (a `finally`);
\* the error path leaves without releasing the lock.
FailPcStore == "store"

FailPcNoRelease == "idle"

FailPc == "release"

Fail(p) ==
  /\ pc[p] \in InSession
  /\ outcome[p] = "none"
  /\ pc' = [pc EXCEPT ![p] = FailPc]
  /\ outcome' = [outcome EXCEPT ![p] = "error"]
  /\ g' = [g EXCEPT ![p] = EmptyGraph]
  /\ loc' = [loc EXCEPT ![p] = NoLoc]
  /\ UNCHANGED <<pure, gfile, blobs, flock, counter, inst, op, pre, nstore, hist, api, budget>>

\* History: the operation of the session that ends, and, for a run of
\* successful upserts of placeholders of one title that began with the title
\* absent, the alias sets upserted so far.
IsProtoUpsert(o) == o.type = "upsert" /\ o.doc.kind = "proto_article"

HistAfter(h, o, how, snap) ==
  IF how # "ok" \/ ~snap.loaded THEN NoHist
  ELSE IF ~IsProtoUpsert(o) THEN [op |-> o, chain |-> FALSE, acc |-> {}]
  ELSE IF Stored(snap.gfile, snap.blobs, o.doc.title) = NoDoc
    THEN [op |-> o, chain |-> TRUE, acc |-> o.doc.alt_title]
  ELSE IF h.chain /\ h.op.doc.title = o.doc.title
    THEN [op |-> o, chain |-> TRUE, acc |-> h.acc \cup o.doc.alt_title]
  ELSE [op |-> o, chain |-> FALSE, acc |-> {}]

\* space.py 48, leaving `async with self._lock`: the counter goes down and the
\* OS lock is dropped when it reaches zero.
Unlock(holder, n) == IF n = 1 THEN NoInst ELSE holder

Release(p) ==
  /\ pc[p] = "release"
  /\ counter' = [counter EXCEPT ![inst[p]] = @ - 1]
  /\ flock' = Unlock(flock, counter[inst[p]])
  /\ pc' = [pc EXCEPT ![p] = "idle"]
  /\ op' = [op EXCEPT ![p] = NoOp]
  /\ g' = [g EXCEPT ![p] = EmptyGraph]
  /\ loc' = [loc EXCEPT ![p] = NoLoc]
  /\ pre' = [pre EXCEPT ![p] = NoSnap]
  /\ nstore' = [nstore EXCEPT ![p] = 0]
  /\ outcome' = [outcome EXCEPT ![p] = "none"]
  /\ hist' = HistAfter(hist, op[p], outcome[p], pre[p])
  /\ UNCHANGED <<pure, gfile, blobs, inst, api, budget>>

Next ==
  \E p \in Procs :
    \/ Start(p)
    \/ Acquire(p)
    \/ Timeout(p)
    \/ Load(p)
    \/ ReadStep(p)
    \/ UpsertRead(p)
    \/ CleanupRead(p)
    \/ CleanupDelete(p)
    \/ LinkRead(p)
    \/ LinkWrite(p)
    \/ WriteBlob(p)
    \/ Store(p)
    \/ Fail(p)
    \/ Release(p)

\* The sessions that run to their end: every step but the failure of a session.
NextCompleted ==
  \E p \in Procs :
    \/ Start(p)
    \/ Acquire(p)
    \/ Timeout(p)
    \/ Load(p)
    \/ ReadStep(p)
    \/ UpsertRead(p)
    \/ CleanupRead(p)
    \/ CleanupDelete(p)
    \/ LinkRead(p)
    \/ LinkWrite(p)
    \/ WriteBlob(p)
    \/ Store(p)
    \/ Release(p)

Spec == Init /\ [][Next]_vars

\* Callers of read_doc, write_doc and upsert_doc whose sessions all complete.
SpecCompleted == InitWrite /\ [][NextCompleted]_vars

SpecWrite == InitWrite /\ [][Next]_vars

\* Callers of read_doc and upsert_doc whose sessions all complete.
SpecUpserts == Init /\ [][NextCompleted]_vars

SpecShared == InitShared /\ [][Next]_vars

\* ------------------------------------------------------------------ link resolution

\* Tags of one answer of the model that _Link.validate is given.
MaxTags == 3

\* Raw tag contents: entity names, the empty string and blanks only.
RawTexts == Titles \cup {"", " "}

\* str.strip() on the raw contents.
Strip(text) == IF text = " " THEN "" ELSE text

\* The values of the attributes idx and of; "" is an attribute that is absent
\* or empty (`if idx:`, `if not of_attr:`).
IdxValues == {"1"}

OntoTag(idx, text) == [name |-> "onto", idx |-> idx, of |-> "", text |-> text]

AltTag(of, text) == [name |-> "alt", idx |-> "", of |-> of, text |-> text]

\* A tag with another name, and a piece of text between tags.
OtherTag == [name |-> "b", idx |-> "", of |-> "", text |-> "A"]

TextItem == [name |-> "#text", idx |-> "", of |-> "", text |-> " "]

TagSet ==
  {OntoTag(i, t) : i \in IdxValues \cup {""}, t \in RawTexts}
    \cup {AltTag(o, t) : o \in IdxValues \cup {""}, t \in RawTexts}
    \cup {OtherTag, TextItem}

TagSeqs == UNION {[1..n -> TagSet] : n \in 0..MaxTags}

\* parse_links.py 56-59: _Link; alter is None or a list, alt_of is None or a name.
None == "<None>"

NoAlter == [none |-> TRUE]

AlterOf(list) == [none |-> FALSE, list |-> list]

Link(name, alter, alt_of) == [name |-> name, alter |-> alter, alt_of |-> alt_of]

\* `link.alter or []`
AlterList(link) == IF link.alter.none THEN <<>> ELSE link.alter.list

Range(seq) == {seq[i] : i \in DOMAIN seq}

NamesOf(links) == {links[i].name : i \in DOMAIN links}

ValidateError(kind) == [err |-> kind, links |-> <<>>]

\* Variant of IsDuplicate: only the names of the onto links are looked at.
IsDuplicateOfOnto(word, links) ==
  word \in {links[i].name : i \in {j \in DOMAIN links : links[j].alt_of = None}}

\* parse_links.py 86 and 119: `word in [x.name for x in links]`.
IsDuplicate(word, links) == word \in NamesOf(links)

\* parse_links.py 74-139: the loop over the tags; onto_links maps an idx to the
\* position in links of the onto link stored for it (0: none).
RECURSIVE ValidateFrom(_, _, _, _)
ValidateFrom(tags, i, links, onto_links) ==
  IF i > Len(tags)
    THEN IF links = <<>> THEN ValidateError("no_onto") ELSE [err |-> "", links |-> links]
  ELSE LET tag == tags[i]
           word == Strip(tag.text)
       IN CASE tag.name = "#text" -> ValidateFrom(tags, i + 1, links, onto_links)
            [] tag.name = "onto" ->
                 IF word = "" THEN ValidateError("empty_onto")
                 ELSE IF IsDuplicate(word, links) THEN ValidateError("duplicate")
                 ELSE ValidateFrom(tags, i + 1,
                        Append(links, Link(word, AlterOf(<<>>), None)),
                        IF tag.idx # ""
                          THEN [onto_links EXCEPT ![tag.idx] = Len(links) + 1]
                          ELSE onto_links)
            [] tag.name = "alt" ->
                 IF tag.of = "" THEN ValidateError("missing_of")
                 ELSE IF word = "" THEN ValidateError("empty_alt")
                 ELSE IF onto_links[tag.of] = 0 THEN ValidateError("unknown_idx")
                 ELSE LET k == onto_links[tag.of] IN
                        IF word = links[k].name
                          THEN ValidateFrom(tags, i + 1, links, onto_links)
                        ELSE IF IsDuplicate(word, links) THEN ValidateError("duplicate")
                        ELSE ValidateFrom(tags, i + 1,
                               Append([links EXCEPT
                                         ![k].alter = AlterOf(Append(AlterList(links[k]), word))],
                                      Link(word, NoAlter, links[k].name)),
                               onto_links)
            [] OTHER -> ValidateError("unexpected_tag")

\* parse_links.py 61-72: _Link.validate on the parsed tags.
validate(tags) ==
  IF tags = <<>> THEN ValidateError("empty_input")
  ELSE ValidateFrom(tags, 1, <<>>, [x \in IdxValues |-> 0])

\* The position of the first link with this name, 0 when there is none.
IndexOf(res, name) ==
  IF name \in NamesOf(res)
    THEN CHOOSE i \in DOMAIN res :
           res[i].name = name /\ \A j \in 1..(i - 1) : res[j].name # name
    ELSE 0

\* parse_links.py 174-177: every other alias of to_replace becomes an alias of
\* the title (position t).
RECURSIVE Repoint(_, _, _, _)
Repoint(res, i, t, to_replace) ==
  IF i > Len(res) THEN res
  ELSE IF res[i].alt_of = to_replace /\ res[i].name # res[t].name
    THEN Repoint([res EXCEPT ![i].alt_of = res[t].name,
                             ![t].alter = AlterOf(Append(AlterList(res[t]), res[i].name))],
                 i + 1, t, to_replace)
  ELSE Repoint(res, i + 1, t, to_replace)

\* Variants of FixUp: the title link takes over the list of the old canonical
\* link; the other aliases of the old canonical link are left with it.
FixUpTakesOver(res, t) ==
  LET to_replace == res[t].alt_of
      k == IndexOf(res, to_replace)
  IN [res EXCEPT ![t].alt_of = None,
                 ![t].alter = AlterOf(Append(AlterList(res[k]), to_replace)),
                 ![k].alter = AlterOf(<<>>), ![k].alt_of = res[t].name]

FixUpNoRepoint(res, t) ==
  LET to_replace == res[t].alt_of
      k == IndexOf(res, to_replace)
  IN [res EXCEPT ![t].alt_of = None, ![t].alter = AlterOf(<<to_replace>>),
                 ![k].alter = AlterOf(<<>>), ![k].alt_of = res[t].name]

\* parse_links.py 165-177: the title link (position t) is an alias of another
\* link; the two change places.
FixUp(res, t) ==
  LET to_replace == res[t].alt_of
      k == IndexOf(res, to_replace)
      r1 == [res EXCEPT ![t].alt_of = None, ![t].alter = AlterOf(<<to_replace>>)]
      r2 == [r1 EXCEPT ![k].alter = AlterOf(<<>>), ![k].alt_of = res[t].name]
  IN Repoint(r2, 1, t, to_replace)

\* Variant of UpdateAliases: the list of the title link replaces the aliases.
ReplaceAliases(alt_title, alter) == Range(alter)

\* parse_links.py 180-181: article.alt_title.update(title_link.alter or []).
UpdateAliases(alt_title, alter) == alt_title \cup Range(alter)

\* Variant of LinkKeys: every link other than the title, aliases included.
LinkKeysWithAliases(res, title) ==
  {res[i].name : i \in {j \in DOMAIN res : res[j].name # title}}

\* parse_links.py 183-185: the canonical links other than the title.
LinkKeys(res, title) ==
  {res[i].name : i \in {j \in DOMAIN res : res[j].name # title /\ res[j].alt_of = None}}

\* parse_links.py 158-185: parse_links on the validated links.
Resolve(title, alt_title, links, res) ==
  LET t == IndexOf(res, title)
      r == IF t # 0 /\ res[t].alt_of # None THEN FixUp(res, t) ELSE res
      keys == LinkKeys(r, title)
  IN [res |-> r,
      alt_title |-> IF t # 0 THEN UpdateAliases(alt_title, AlterList(r[t])) ELSE alt_title,
      links |-> [n \in DOMAIN links \cup keys |->
                   IF n \in keys THEN Range(AlterList(r[IndexOf(r, n)])) ELSE links[n]]]

\* pipeline.py 29-34: the article handed to parse_links comes from
\* write_article, with the title and the aliases of the proto and no links.
InitLinks ==
  /\ InitSpace
  /\ inst = [p \in Procs |-> IF p = "t1" THEN "s1" ELSE "s2"]
  /\ api = {}
  /\ budget = 0
  /\ lk \in {[pc |-> "parse", title |-> "A", alt_title |-> a, links |-> <<>>,
              tags |-> <<>>, err |-> "", res |-> <<>>, before |-> <<>>,
              alt_before |-> a]
               : a \in {{}, {"C"}}}
  /\ hl = NoHl
  /\ rk = NoRk

\* parse_links.py 142-156: _link_parse; the answer of the model is validated.
LinkParse ==
  /\ lk.pc = "parse"
  /\ \E tags \in TagSeqs :
       LET v == validate(tags) IN
         lk' = [lk EXCEPT !.tags = tags, !.err = v.err, !.res = v.links,
                          !.before = v.links,
                          !.pc = IF v.err # "" THEN "raised" ELSE "resolve"]
  /\ UNCHANGED <<space, hl, rk>>

\* parse_links.py 158-185.
LinkResolve ==
  /\ lk.pc = "resolve"
  /\ LET r == Resolve(lk.title, lk.alt_title, lk.links, lk.res) IN
       lk' = [lk EXCEPT !.res = r.res, !.alt_title = r.alt_title, !.links = r.links,
                        !.pc = "done"]
  /\ UNCHANGED <<space, hl, rk>>

NextLinks == LinkParse \/ LinkResolve

SpecLinks == InitLinks /\ [][NextLinks]_vars

\* ------------------------------------------------------------------ highlighter

\* Bound: the longest text handed to replace_text_with_links.
MaxText == 4

Chars == {"a", "b", "B"}

\* str.lower on one character (re.IGNORECASE compares case-folded).
Lower(c) == IF c = "B" THEN "b" ELSE c

\* The texts: strings are sequences of characters.
Texts == UNION {[1..n -> Chars] : n \in 0..MaxText}

\* The text and the terms of the worked example.
Abcdef == <<"a", "b", "c", "d", "e", "f">>

AbcdefTerms == {<<"a", "b", "c">>, Abcdef}

\* A text in which an accepted match is removed and two matches are wrapped.
Ababb == <<"a", "b", "a", "b", "b">>

\* The terms a text is searched for.
TermPool == {<<"b">>, <<"B">>, <<"a", "b">>, <<"b", "b">>, <<"b", "a", "b">>}

\* The orders in which a set of terms can be enumerated.
Enumerations(S) ==
  {e \in UNION {[1..n -> S] : n \in {Cardinality(S)}} :
     \A i \in DOMAIN e : \A j \in DOMAIN e : i # j => e[i] # e[j]}

TermOrders(pool) == UNION {Enumerations(S) : S \in SUBSET pool}

\* utils.py 20-25: _MatchDict, start counted from 0 and end exclusive.
MatchDict(start, end, term) ==
  [start |-> start, end |-> end, term |-> term, length |-> end - start]

\* re.match of re.escape(term) at offset pos of text under re.IGNORECASE.
MatchesAt(term, text, pos) ==
  /\ pos + Len(term) <= Len(text)
  /\ \A k \in 1..Len(term) : Lower(text[pos + k]) = Lower(term[k])

\* utils.py 45-51: re.finditer scans from the left and goes on after the end of
\* each occurrence it finds.
RECURSIVE FindIter(_, _, _)
FindIter(term, text, pos) ==
  IF pos + Len(term) > Len(text) THEN <<>>
  ELSE IF MatchesAt(term, text, pos)
    THEN <<MatchDict(pos, pos + Len(term), term)>> \o FindIter(term, text, pos + Len(term))
  ELSE FindIter(term, text, pos + 1)

\* utils.py 43-51: the matches of every term, in the order of enumeration.
RECURSIVE AllMatches(_, _, _)
AllMatches(terms, text, i) ==
  IF i > Len(terms) THEN <<>>
  ELSE FindIter(terms[i], text, 0) \o AllMatches(terms, text, i + 1)

\* Variant of SortKeyLeq: the matches stay in the order they were found in.
SortKeyLeqUnsorted(x, y) == TRUE

\* utils.py 54: the key (start, -length), compared as tuples.
SortKeyLeq(x, y) ==
  \/ x.start < y.start
  \/ x.start = y.start /\ x.length >= y.length

StartLeq(x, y) == x.start <= y.start

\* list.sort is stable: an element goes behind every element that is not
\* greater than it.
RECURSIVE InsertSorted(_, _, _, _)
InsertSorted(sorted, x, i, byStart) ==
  IF i > Len(sorted) THEN Append(sorted, x)
  ELSE IF (IF byStart THEN StartLeq(sorted[i], x) ELSE SortKeyLeq(sorted[i], x))
    THEN InsertSorted(sorted, x, i + 1, byStart)
  ELSE SubSeq(sorted, 1, i - 1) \o <<x>> \o SubSeq(sorted, i, Len(sorted))

RECURSIVE SortFrom(_, _, _, _)
SortFrom(seq, i, sorted, byStart) ==
  IF i > Len(seq) THEN sorted
  ELSE SortFrom(seq, i + 1, InsertSorted(sorted, seq[i], 1, byStart), byStart)

Sort(seq, byStart) == SortFrom(seq, 1, <<>>, byStart)

\* utils.py 61-63.
Overlap(match, accepted) ==
  ~(match.end <= accepted.start \/ match.start >= accepted.end)

RemoveAt(seq, j) == SubSeq(seq, 1, j - 1) \o SubSeq(seq, j + 1, Len(seq))

\* Variant of CheckAccepted: a match that overlaps an accepted one is skipped,
\* whatever its length.
RECURSIVE CheckAcceptedKeepsFirst(_, _, _)
CheckAcceptedKeepsFirst(match, filtered, j) ==
  IF j > Len(filtered) THEN [filtered |-> filtered, overlaps |-> FALSE]
  ELSE IF Overlap(match, filtered[j])
    THEN [filtered |-> filtered, overlaps |-> TRUE]
  ELSE CheckAcceptedKeepsFirst(match, filtered, j + 1)

\* utils.py 60-71: the loop over filtered_matches for one match. The list
\* iterator goes by index, so after a removal at j it goes on at j + 1 of the
\* shortened list.
RECURSIVE CheckAccepted(_, _, _)
CheckAccepted(match, filtered, j) ==
  IF j > Len(filtered) THEN [filtered |-> filtered, overlaps |-> FALSE]
  ELSE IF Overlap(match, filtered[j])
    THEN IF match.length > filtered[j].length
           THEN CheckAccepted(match, RemoveAt(filtered, j), j + 1)
           ELSE [filtered |-> filtered, overlaps |-> TRUE]
  ELSE CheckAccepted(match, filtered, j + 1)

\* utils.py 57-75.
RECURSIVE Filter(_, _, _)
Filter(matches, i, filtered) ==
  IF i > Len(matches) THEN filtered
  ELSE LET c == CheckAccepted(matches[i], filtered, 1) IN
         Filter(matches, i + 1,
                IF c.overlaps THEN c.filtered ELSE Append(c.filtered, matches[i]))

Reverse(seq) == [i \in 1..Len(seq) |-> seq[Len(seq) + 1 - i]]

\* utils.py 83-90: text[:start] + '<em>' + text[start:end] + '</em>' + text[end:].
Wrap(text, match) ==
  SubSeq(text, 1, match.start) \o <<"<em>">>
    \o SubSeq(text, match.start + 1, match.end) \o <<"</em>">>
    \o SubSeq(text, match.end + 1, Len(text))

\* utils.py 83-90 for each match of the reversed list.
RECURSIVE Replace(_, _, _)
Replace(text, todo, i) ==
  IF i > Len(todo) THEN text ELSE Replace(Wrap(text, todo[i]), todo, i + 1)

\* pipeline.py 92: the content of a related article and the keys of its links.
InitHighlight ==
  /\ InitSpace
  /\ inst = [p \in Procs |-> IF p = "t1" THEN "s1" ELSE "s2"]
  /\ api = {}
  /\ budget = 0
  /\ lk = NoLk
  /\ rk = NoRk
  /\ \E text \in Texts \cup {Abcdef, Ababb} :
       \E terms \in (IF text = Abcdef THEN TermOrders(AbcdefTerms) ELSE TermOrders(TermPool)) :
         hl = [pc |-> "find", text |-> text, terms |-> terms, matches |-> <<>>,
               filtered |-> <<>>, out |-> text]

\* utils.py 42-54.
HlFind ==
  /\ hl.pc = "find"
  /\ hl' = [hl EXCEPT !.matches = Sort(AllMatches(hl.terms, hl.text, 1), FALSE),
                      !.pc = "filter"]
  /\ UNCHANGED <<space, lk, rk>>

\* utils.py 56-75.
HlFilter ==
  /\ hl.pc = "filter"
  /\ hl' = [hl EXCEPT !.filtered = Filter(hl.matches, 1, <<>>), !.pc = "replace"]
  /\ UNCHANGED <<space, lk, rk>>

\* utils.py 77-92.
HlReplace ==
  /\ hl.pc = "replace"
  /\ hl' = [hl EXCEPT !.out = Replace(hl.text, Reverse(Sort(hl.filtered, TRUE)), 1),
                      !.pc = "done"]
  /\ UNCHANGED <<space, lk, rk>>

NextHighlight == HlFind \/ HlFilter \/ HlReplace

SpecHighlight == InitHighlight /\ [][NextHighlight]_vars

\* ------------------------------------------------------------------ ranker

\* Bound: the largest top_k the ranker is called with.
MaxTopK == 2

TopKs == 0..MaxTopK

\* The articles of a store: a title of ArticleTitles -> the links of its article.
StoredArticles == UNION {[S -> LinkMaps] : S \in SUBSET ArticleTitles}

LinkedTitles(arts) == UNION {DOMAIN arts[a] : a \in DOMAIN arts}

LinkingTo(arts, t) == {a \in DOMAIN arts : t \in DOMAIN arts[a]}

\* The graph after the articles arts and the placeholders alone were upserted
\* (docs.py 119-134): a node per document, an edge keyed by its source per link.
GraphOf(arts, alone) ==
  [nodes |-> DOMAIN arts \cup LinkedTitles(arts) \cup alone,
   edges |-> UNION {{Edge(a, t, a) : t \in DOMAIN arts[a]} : a \in DOMAIN arts}]

\* The blobs after the same upserts; lost is the set of placeholders whose blob
\* a failed clean-up deleted while the graph file kept the node (docs.py 238-244):
\* placeholders that one article links to.
BlobsOf(arts, alone, lost) ==
  [t \in Titles |->
     IF t \in DOMAIN arts THEN Article(t, {}, "s", arts[t])
     ELSE IF t \in lost THEN NoDoc
     ELSE IF t \in LinkedTitles(arts) \cup alone
       THEN ProtoArticle(t, (IF t \in alone THEN {"x"} ELSE {})
                              \cup (IF t \in LinkedTitles(arts) THEN {"y"} ELSE {}))
     ELSE NoDoc]

\* pipeline.py 53: nx.Graph(res.g), the nodes and the unkeyed, undirected edges.
Undirected(G) == [nodes |-> G.nodes, edges |-> {e.ends : e \in G.edges}]

\* The position of a node in the sorted list.
IndexOfNode(sorted_ppr, t) == CHOOSE i \in DOMAIN sorted_ppr : sorted_ppr[i] = t

\* The store as a session of the ranker finds it.
View(f, B) == [g |-> SpaceRead(f), blobs |-> B]

\* Bound: the number of different score values of one ranking.
MaxScore == 2

\* pipeline.py 58: the scores of a list sorted with reverse=True.
SortedScores(n) ==
  {sc \in [1..n -> 1..MaxScore] : \A i \in 1..n : \A j \in 1..n : i < j => sc[i] >= sc[j]}

\* pipeline.py 55-58: nx.pagerank and the sort by score. An empty graph gives
\* no scores. With the title among the nodes every order of the nodes, with
\* every descending list of score values, stands for some scores. With the title not among the nodes the personalization
\* vector has no weight on any node: the scipy implementation raises
\* ZeroDivisionError, the pure Python one of older releases returns scores.
PagerankOutcomes(nodes, title) ==
  {[raised |-> FALSE, sorted_ppr |-> o, scores |-> sc] :
     o \in Enumerations(nodes), sc \in SortedScores(Cardinality(nodes))}
    \cup (IF nodes # {} /\ title \notin nodes
           THEN {[raised |-> TRUE, sorted_ppr |-> <<>>, scores |-> <<>>]} ELSE {})

\* Variant of Visit: the kind of the document is not looked at.
VisitAnyKind(node_article, title, connected) ==
  IF node_article = NoDoc THEN connected
  ELSE IF node_article.title = title THEN connected
  ELSE Append(connected, node_article)

\* pipeline.py 62-70: what one iteration does with the document it read.
Visit(node_article, title, connected) ==
  IF node_article = NoDoc THEN connected
  ELSE IF node_article.title = title THEN connected
  ELSE IF node_article.kind = "article" THEN Append(connected, node_article)
  ELSE connected

\* pipeline.py 62-72: an iteration ends the loop on `continue` only when the
\* list is exhausted, otherwise also when top_k documents are collected.
LoopEnds(node_article, title, connected, top_k, last) ==
  \/ last
  \/ /\ node_article # NoDoc
     /\ node_article.title # title
     /\ Len(connected) >= top_k

\* A store between sessions, and a call of the ranker on it.
InitRankCall(ks) ==
  /\ flock = NoInst
  /\ counter = [i \in Instances |-> 0]
  /\ pc = [p \in Procs |-> "idle"]
  /\ op = [p \in Procs |-> NoOp]
  /\ g = [p \in Procs |-> EmptyGraph]
  /\ loc = [p \in Procs |-> NoLoc]
  /\ outcome = [p \in Procs |-> "none"]
  /\ pre = [p \in Procs |-> NoSnap]
  /\ nstore = [p \in Procs |-> 0]
  /\ hist = NoHist
  /\ inst = [p \in Procs |-> IF p = "t1" THEN "s1" ELSE "s2"]
  /\ lk = NoLk
  /\ hl = NoHl
  /\ \E arts \in StoredArticles :
       \E alone \in SUBSET ({"A", "B"} \ DOMAIN arts) :
         \E lost \in SUBSET {t \in {"B"} : Cardinality(LinkingTo(arts, t)) = 1} :
           /\ gfile = IF GraphOf(arts, alone).nodes = {} THEN NoGraph
                      ELSE GraphOf(arts, alone)
           /\ blobs = BlobsOf(arts, alone, lost)
  /\ \E title \in Titles : \E top_k \in ks :
       rk = [pc |-> "seed", title |-> title, top_k |-> top_k, article |-> NoDoc,
             undirected |-> Undirected(EmptyGraph), sorted_ppr |-> <<>>,
             scores |-> <<>>, i |-> 0,
             connected |-> <<>>, result |-> "none", snapshot |-> FALSE, views |-> {}]

\* The ranker is called while no other request runs.
InitRank ==
  /\ InitRankCall(TopKs)
  /\ api = {}
  /\ budget = 0

\* pipeline.py 47-49: read_doc(space, title) in a session of its own
\* (docs.py 87-88, space.py 48-55: the graph is loaded and stored again).
RkSeed ==
  /\ rk.pc = "seed"
  /\ flock = NoInst
  /\ gfile' = SpaceRead(gfile)
  /\ rk' = [rk EXCEPT !.article = Stored(gfile, blobs, rk.title),
                      !.views = @ \cup {View(gfile, blobs)},
                      !.pc = IF Stored(gfile, blobs, rk.title) = NoDoc
                               THEN "returned" ELSE "snapshot",
                      !.result = IF Stored(gfile, blobs, rk.title) = NoDoc
                                   THEN "None" ELSE "none"]
  /\ UNCHANGED <<blobs, flock, counter, inst, pc, op, g, loc, outcome, pre, nstore,
                 hist, api, budget, lk, hl>>

\* pipeline.py 52-58: the snapshot in a second session, then pagerank and the
\* sort by score; every order of the nodes stands for some scores.
RkSnapshot ==
  /\ rk.pc = "snapshot"
  /\ flock = NoInst
  /\ gfile' = SpaceRead(gfile)
  /\ \E out \in PagerankOutcomes(SpaceRead(gfile).nodes, rk.title) :
       rk' = [rk EXCEPT !.undirected = Undirected(SpaceRead(gfile)),
                        !.snapshot = TRUE,
                        !.views = @ \cup {View(gfile, blobs)},
                        !.sorted_ppr = out.sorted_ppr, !.scores = out.scores,
                        !.i = 1,
                        !.result = IF out.raised THEN "error" ELSE @,
                        !.pc = IF out.raised THEN "returned"
                               ELSE IF out.sorted_ppr = <<>> THEN "return" ELSE "loop"]
  /\ UNCHANGED <<blobs, flock, counter, inst, pc, op, g, loc, outcome, pre, nstore,
                 hist, api, budget, lk, hl>>

\* pipeline.py 62-72: one iteration, with its read_doc session.
RkVisit ==
  /\ rk.pc = "loop"
  /\ flock = NoInst
  /\ gfile' = SpaceRead(gfile)
  /\ LET node_article == Stored(gfile, blobs, rk.sorted_ppr[rk.i])
         connected == Visit(node_article, rk.title, rk.connected)
     IN rk' = [rk EXCEPT !.connected = connected, !.i = @ + 1,
                         !.views = @ \cup {View(gfile, blobs)},
                         !.pc = IF LoopEnds(node_article, rk.title, connected, rk.top_k,
                                            rk.i = Len(rk.sorted_ppr))
                                  THEN "return" ELSE "loop"]
  /\ UNCHANGED <<blobs, flock, counter, inst, pc, op, g, loc, outcome, pre, nstore,
                 hist, api, budget, lk, hl>>

\* pipeline.py 76.
RkReturn ==
  /\ rk.pc = "return"
  /\ rk' = [rk EXCEPT !.pc = "returned", !.result = "ok"]
  /\ UNCHANGED <<space, lk, hl>>

NextRank == RkSeed \/ RkSnapshot \/ RkVisit \/ RkReturn

SpecRank == InitRank /\ [][NextRank]_vars

\* Bound: sessions of a writer that run while the ranker is called.
MaxWriterSessions == 1

\* The task that upserts documents while the ranker is called by another one.
Writer == "t1"

\* api.py 71-100: a generate request upserts an article (pipeline.py 36) while
\* another request is in the ranker.
InitRankWriter ==
  /\ InitRankCall({MaxTopK})
  /\ api = {"upsert"}
  /\ budget = MaxWriterSessions

NextRankWriter ==
  \/ RkSeed
  \/ RkSnapshot
  \/ RkVisit
  \/ RkReturn
  \/ Start(Writer)
  \/ Acquire(Writer)
  \/ Load(Writer)
  \/ UpsertRead(Writer)
  \/ CleanupRead(Writer)
  \/ CleanupDelete(Writer)
  \/ LinkRead(Writer)
  \/ LinkWrite(Writer)
  \/ WriteBlob(Writer)
  \/ Store(Writer)
  \/ Release(Writer)

SpecRankWriter == InitRankWriter /\ [][NextRankWriter]_vars

\* The task that reads documents while the ranker is called by another one.
Reader == "t2"

\* api.py 103-151: a request reads a document (docs.py 67-88) while another
\* request is in the ranker.
InitRankReader ==
  /\ InitRankCall({MaxTopK})
  /\ api = {"read"}
  /\ budget = 1

NextRankReader ==
  \/ RkSeed
  \/ RkSnapshot
  \/ RkVisit
  \/ RkReturn
  \/ Start(Reader)
  \/ Acquire(Reader)
  \/ Load(Reader)
  \/ ReadStep(Reader)
  \/ Store(Reader)
  \/ Release(Reader)

SpecRankReader == InitRankReader /\ [][NextRankReader]_vars

\* ------------------------------------------------------------------ generation

\* Stores that _gen_article runs on: A is absent, a placeholder, or an article
\* that links to B (alone, or beside an article C that links to B too).
GenStores ==
  {[arts |-> <<>>, alone |-> {}],
   [arts |-> <<>>, alone |-> {"A"}],
   [arts |-> [a \in {"A"} |-> [t \in {"B"} |-> {"y"}]], alone |-> {}],
   [arts |-> [a \in {"A", "C"} |-> [t \in {"B"} |-> {"y"}]], alone |-> {}]}

\* pipeline.py 29-34: write_article has returned the article of the proto;
\* parse_links is awaited next, on a store that no other request uses.
InitGen ==
  /\ flock = NoInst
  /\ counter = [i \in Instances |-> 0]
  /\ pc = [p \in Procs |-> "idle"]
  /\ op = [p \in Procs |-> NoOp]
  /\ g = [p \in Procs |-> EmptyGraph]
  /\ loc = [p \in Procs |-> NoLoc]
  /\ outcome = [p \in Procs |-> "none"]
  /\ pre = [p \in Procs |-> NoSnap]
  /\ nstore = [p \in Procs |-> 0]
  /\ hist = NoHist
  /\ inst = [p \in Procs |-> IF p = "t1" THEN "s1" ELSE "s2"]
  /\ api = {"upsert"}
  /\ budget = 1
  /\ \E s \in GenStores :
       /\ gfile = IF GraphOf(s.arts, s.alone).nodes = {} THEN NoGraph
                  ELSE GraphOf(s.arts, s.alone)
       /\ blobs = BlobsOf(s.arts, s.alone, {})
  /\ lk \in {[pc |-> "parse", title |-> "A", alt_title |-> a, links |-> <<>>,
              tags |-> <<>>, err |-> "", res |-> <<>>, before |-> <<>>,
              alt_before |-> a]
               : a \in {{}, {"C"}}}
  /\ hl = NoHl
  /\ rk = NoRk

\* Variant of UpsertAfter: upsert_doc does not wait for parse_links.
UpsertAnyTime == {"parse", "resolve", "raised", "done"}

\* pipeline.py 34-36: `await parse_links(...)` has returned when upsert_doc is
\* called; an exception of parse_links leaves _gen_article at line 34.
UpsertAfter == {"done"}

\* pipeline.py 36: upsert_doc(space, article) is called.
GenUpsert ==
  /\ lk.pc \in UpsertAfter
  /\ Start(Writer)

\* pipeline.py 36, docs.py 271: the session's body starts on the article that
\* parse_links completed.
GenArticle == Article(lk.title, lk.alt_title, "s", lk.links)

GenLoad == Enter(Writer, {[type |-> "upsert", doc |-> GenArticle]})

NextGen ==
  \/ LinkParse
  \/ LinkResolve
  \/ GenUpsert
  \/ Acquire(Writer)
  \/ GenLoad
  \/ UpsertRead(Writer)
  \/ CleanupRead(Writer)
  \/ CleanupDelete(Writer)
  \/ LinkRead(Writer)
  \/ LinkWrite(Writer)
  \/ WriteBlob(Writer)
  \/ Store(Writer)
  \/ Fail(Writer)
  \/ Release(Writer)

SpecGen == InitGen /\ [][NextGen]_vars

\* ------------------------------------------------------------------ properties

\* The tasks inside `async with self._lock` (space.py 48-55).
Holding == InSession \cup {"release"}

\* A session whose body ended and whose graph is stored, before it leaves.
Done(p) == pc[p] = "release" /\ outcome[p] = "ok"

IsArticleUpsert(o) == o.type = "upsert" /\ o.doc.kind = "article"

\* What read_doc returned for `t` when the session of p loaded the graph, and
\* what it returns now.
PreRead(p, t) == Stored(pre[p].gfile, pre[p].blobs, t)

PreG(p) == SpaceRead(pre[p].gfile)

NowRead(t) == Stored(gfile, blobs, t)

NowG == SpaceRead(gfile)

\* A successful upsert of an article over a stored article.
FullOverFull(p) ==
  Done(p) /\ IsArticleUpsert(op[p]) /\ PreRead(p, op[p].doc.title).kind = "article"

\* The case of C1: b is a stored placeholder whose only edge is the one of the
\* article that p replaces, and the new version does not link to b.
OnlyLinkDropped(p, b) ==
  /\ FullOverFull(p)
  /\ PreRead(p, b).kind = "proto_article"
  /\ edges(PreG(p), b) = {Edge(op[p].doc.title, b, op[p].doc.title)}
  /\ b \notin DOMAIN op[p].doc.links

\* C1: when article A is the only document with an edge to placeholder B, a
\* successful upsert of a new version of A that does not link to B leaves B
\* with no node in the stored graph and no blob.
C1_OrphanCleanup ==
  \A p \in Procs : \A b \in Titles :
    OnlyLinkDropped(p, b) => ~has_node(NowG, b) /\ blobs[b] = NoDoc

C1_Witness ==
  \E p \in Procs : \E b \in Titles :
    OnlyLinkDropped(p, b) /\ ~has_node(NowG, b) /\ blobs[b] = NoDoc

\* The cases of C2: t is an old link target of the article that p replaces and
\* is a stored article, or keeps an edge keyed by another document once the
\* edge of the replaced article is taken away.
OldTarget(p, t) == FullOverFull(p) /\ t \in OutLinks(PreG(p), op[p].doc.title)

StillReferenced(p, t) ==
  \E e \in edges(remove_edge(PreG(p), op[p].doc.title, t, op[p].doc.title), t) :
    e.key # op[p].doc.title

Kept(p, t) ==
  /\ has_node(NowG, t)
  /\ PreRead(p, t) # NoDoc =>
       /\ NowRead(t) # NoDoc
       /\ NowRead(t).kind = PreRead(p, t).kind
       /\ PreRead(p, t).alt_title \subseteq NowRead(t).alt_title
            \/ t = op[p].doc.title
       /\ PreRead(p, t).kind = "article" /\ t # op[p].doc.title
            => NowRead(t) = PreRead(p, t)

\* C2: in an article-over-article upsert of A, an old link target of A keeps
\* its node and its blob when another document's edge still reaches it, or
\* when its stored document is an article.
C2_TargetsPreserved ==
  \A p \in Procs : \A t \in Titles :
    OldTarget(p, t) /\ (StillReferenced(p, t) \/ PreRead(p, t).kind = "article")
      => Kept(p, t)

C2_Witness ==
  \E p \in Procs : \E t \in Titles :
    /\ OldTarget(p, t) /\ StillReferenced(p, t)
    /\ PreRead(p, t).kind = "proto_article"
    /\ t \notin DOMAIN op[p].doc.links
    /\ Kept(p, t)

\* C3: a successful upsert of an article that directly follows a successful
\* upsert of the same article leaves the stored graph and every blob as they
\* were.
C3_Idempotent ==
  \A p \in Procs :
    Done(p) /\ IsArticleUpsert(op[p]) /\ hist.op = op[p]
      => gfile = pre[p].gfile /\ blobs = pre[p].blobs

\* The case of C4: a successful upsert of a placeholder for a title that reads
\* as an article.
ProtoOverFull(p) ==
  Done(p) /\ IsProtoUpsert(op[p]) /\ PreRead(p, op[p].doc.title).kind = "article"

\* C4: upserting a placeholder for a title that reads as an article changes
\* nothing: not the article, not another blob, not the graph.
C4_PlaceholderPrecedence ==
  \A p \in Procs : ProtoOverFull(p) => blobs = pre[p].blobs /\ gfile = pre[p].gfile

C4_Witness ==
  \E p \in Procs :
    /\ ProtoOverFull(p) /\ blobs = pre[p].blobs /\ gfile = pre[p].gfile
    /\ op[p].doc.alt_title # PreRead(p, op[p].doc.title).alt_title

\* The case of C5: a successful upsert of a placeholder for a title that does
\* not read as an article.
ProtoOverProto(p) ==
  Done(p) /\ IsProtoUpsert(op[p]) /\ PreRead(p, op[p].doc.title).kind # "article"

AliasesBefore(p, t) ==
  IF PreRead(p, t) = NoDoc THEN {} ELSE PreRead(p, t).alt_title

\* C5: a successful placeholder upsert (no article stored for the title) stores
\* the placeholder with the union of the stored and the incoming alias sets and
\* changes no edge; after a run of such upserts that began with the title
\* absent, the stored alias set is the union of the alias sets of the run.
C5_AliasMerge ==
  \A p \in Procs :
    ProtoOverProto(p) =>
      LET t == op[p].doc.title IN
        /\ NowRead(t) = ProtoArticle(t, AliasesBefore(p, t) \cup op[p].doc.alt_title)
        /\ NowG.edges = PreG(p).edges
        /\ HistAfter(hist, op[p], "ok", pre[p]).chain
             => NowRead(t).alt_title
                  = HistAfter(hist, op[p], "ok", pre[p]).acc

C5_Witness ==
  \E p \in Procs :
    /\ ProtoOverProto(p)
    /\ hist.chain /\ hist.op.doc.title = op[p].doc.title
    /\ hist.acc = {"z"} /\ op[p].doc.alt_title = {"x"}
    /\ NowRead(op[p].doc.title).alt_title = {"x", "z"}

\* C6: at most one task is inside the critical section of the Space.
C6_MutualExclusion == Cardinality({p \in Procs : pc[p] \in Holding}) <= 1

\* C7: a session stores the graph once, as its last step and only when its
\* body ended without an error; when it fails, the stored graph is the one it
\* loaded.
C7_StoreOnce ==
  \A p \in Procs :
    /\ nstore[p] <= 1
    /\ nstore[p] = 1 => pc[p] = "release" /\ outcome[p] = "ok" /\ gfile = g[p]
    /\ Done(p) => nstore[p] = 1
    /\ outcome[p] = "error" => nstore[p] = 0 /\ (pre[p].loaded => gfile = pre[p].gfile)

C7_Witness ==
  \E p \in Procs :
    /\ pc[p] = "release" /\ outcome[p] = "error" /\ pre[p].loaded
    /\ blobs # pre[p].blobs /\ gfile = pre[p].gfile /\ nstore[p] = 0

\* C8: the lock is held exactly while a task of the holding Space object is
\* inside `async with`; once every session has ended, by return, by an error
\* or by a cancellation, the lock is free and a waiting task can take it.
C8_LockReleased ==
  /\ \A i \in Instances :
       /\ counter[i] = Cardinality({p \in Procs : inst[p] = i /\ pc[p] \in Holding})
       /\ flock = i => counter[i] > 0
       /\ counter[i] > 0 => flock = i
  /\ (\A p \in Procs : pc[p] \notin Holding)
       => \A q \in Procs : pc[q] = "acquire" => CanAcquire(flock, inst[q])

C8_Witness ==
  /\ \E q \in Procs : pc[q] = "acquire"
  /\ \A p \in Procs : pc[p] \notin Holding
  /\ flock = NoInst
  /\ gfile = NoGraph
  /\ \E t \in Titles : blobs[t] # NoDoc

\* C9: a call whose lock acquisition times out ends there: it has loaded no
\* graph, run no step of a body and stored nothing, and the step that ends it
\* changes neither the stored graph nor a blob.
C9_TimeoutFails ==
  /\ [](\A p \in Procs :
          outcome[p] = "timeout"
            => /\ pc[p] = "idle" /\ ~pre[p].loaded /\ nstore[p] = 0
               /\ op[p] = NoOp /\ g[p] = EmptyGraph /\ loc[p] = NoLoc)
  /\ [][\A p \in Procs :
          outcome'[p] = "timeout" /\ outcome[p] # "timeout"
            => gfile' = gfile /\ blobs' = blobs]_vars

C9_Witness ==
  \E p \in Procs : \E q \in Procs :
    /\ outcome[p] = "timeout" /\ pc[p] = "idle"
    /\ pc[q] \in Holding /\ pre[q].loaded /\ blobs # pre[q].blobs

\* C10: a session that failed leaves every document as read_doc returned it
\* before the session.
C10_Isolation ==
  \A p \in Procs :
    outcome[p] = "error" /\ pre[p].loaded => \A t \in Titles : NowRead(t) = PreRead(p, t)

\* The case of C11: a read_doc session has run its body on a title whose node
\* and blob disagree.
ReadOfHalf(p) ==
  /\ op[p].type = "read" /\ pc[p] = "store"
  /\ has_node(g[p], op[p].title) # (blobs[op[p].title] # NoDoc)

\* C11: read_doc of a title that has a node but no blob, or a blob but no
\* node, returns None and raises nothing.
C11_NotFound ==
  \A p \in Procs : ReadOfHalf(p) => loc[p].result = NoDoc /\ outcome[p] = "none"

C11_Witness ==
  \E p \in Procs :
    /\ ReadOfHalf(p) /\ has_node(g[p], op[p].title)
    /\ loc[p].result = NoDoc /\ outcome[p] = "none"

\* The other half of the case of C11: a blob is stored and the graph has no node.
C11_WitnessBlobOnly ==
  \E p \in Procs :
    /\ ReadOfHalf(p) /\ ~has_node(g[p], op[p].title)
    /\ loc[p].result = NoDoc /\ outcome[p] = "none"

\* C12: after a successful upsert of an article, read_doc of its title returns
\* that article, with its aliases, summary and links, whatever was stored for
\* the title before.
C12_ReadBack ==
  \A p \in Procs :
    Done(p) /\ IsArticleUpsert(op[p]) => NowRead(op[p].doc.title) = op[p].doc

C12_Witness ==
  \E p \in Procs :
    /\ Done(p) /\ IsArticleUpsert(op[p])
    /\ PreRead(p, op[p].doc.title).kind = "proto_article"
    /\ PreRead(p, op[p].doc.title).alt_title # op[p].doc.alt_title
    /\ DOMAIN op[p].doc.links # {}
    /\ NowRead(op[p].doc.title) = op[p].doc

\* No session is between taking the lock and releasing it.
Quiet == \A p \in Procs : pc[p] \notin Holding

\* C13: between sessions, no title that reads as a placeholder is without an
\* incident edge in the stored graph.
C13_NoOrphanPlaceholder ==
  Quiet => \A t \in Titles :
             NowRead(t).kind = "proto_article" => edges(NowG, t) # {}

\* C14: between sessions that all completed, a title has a node in the stored
\* graph if and only if it has a blob.
C14_NodeIffBlob ==
  Quiet => \A t \in Titles : has_node(NowG, t) <=> blobs[t] # NoDoc

\* The edges a step of task p adds to the graph of its session.
NewEdges(p) == g'[p].edges \ g[p].edges

\* C15: every edge of the stored graph and of the graph of a running session
\* is keyed by one of its two ends; a step that adds an edge adds one from the
\* document being written to one of its links, keyed by that document.
C15_KeyedBySource ==
  /\ [](/\ \A e \in NowG.edges : e.key \in e.ends
        /\ \A p \in Procs : \A e \in g[p].edges : e.key \in e.ends)
  /\ [][\A p \in Procs :
          pc[p] \in {"link_upsert", "link_write"} =>
            \A e \in NewEdges(p) :
              /\ e.key = loc[p].content.title
              /\ e.key \in e.ends
              /\ Target(e, e.key) \in DOMAIN loc[p].content.links]_vars

C15_Witness ==
  \E e \in NowG.edges : \E f \in NowG.edges :
    /\ e.key # f.key /\ e.ends \cap f.ends # {}
    /\ e.key \in e.ends /\ f.key \in f.ends
    /\ \E s \in NowG.edges : s.ends = {s.key}

\* The title of the resolved article is, in the validated links, an alias of
\* the canonical link T.
TitleIsAliasOf(T) ==
  /\ lk.pc = "done"
  /\ IndexOf(lk.before, lk.title) # 0
  /\ lk.before[IndexOf(lk.before, lk.title)].alt_of = T
  /\ T # None

\* Stored placeholders of title n whose alias set does not hold n.
CleanPlaceholders(n) == {ProtoArticle(n, a) : a \in SUBSET (Titles \ {n})}

C17_TitleFixUp ==
  \A T \in Titles :
    TitleIsAliasOf(T) =>
      /\ T \in lk.alt_title
      /\ \A i \in DOMAIN lk.before :
           lk.before[i].alt_of = T /\ lk.before[i].name # lk.title
             => lk.before[i].name \in lk.alt_title
      /\ lk.res[IndexOf(lk.res, lk.title)].alt_of = None
      /\ T \notin DOMAIN lk.links
      /\ lk.title \notin DOMAIN lk.links

C17_Witness ==
  \E T \in Titles :
    /\ TitleIsAliasOf(T)
    /\ \E i \in DOMAIN lk.before :
         /\ lk.before[i].alt_of = T /\ lk.before[i].name # lk.title
         /\ lk.before[i].name \in lk.alt_title
    /\ T \in lk.alt_title /\ DOMAIN lk.links = {}

\* The entity tags of an answer, and what makes an answer malformed.
IsEntity(tag) == tag.name \in {"onto", "alt"}

HasEmptyName(tags) ==
  \E i \in DOMAIN tags : IsEntity(tags[i]) /\ Strip(tags[i].text) = ""

\* The onto tag an alt tag refers to: the last one before it with its idx.
OntoFor(tags, i) ==
  LET c == {k \in 1..(i - 1) :
              tags[k].name = "onto" /\ tags[k].idx # "" /\ tags[k].idx = tags[i].of}
  IN IF c = {} THEN 0 ELSE CHOOSE k \in c : \A m \in c : m <= k

HasUnresolvedAlias(tags) ==
  \E i \in DOMAIN tags : tags[i].name = "alt" /\ OntoFor(tags, i) = 0

SameName(tags, i, j) ==
  /\ i < j /\ IsEntity(tags[i]) /\ IsEntity(tags[j])
  /\ Strip(tags[i].text) = Strip(tags[j].text)

HasDuplicateName(tags) == \E i \in DOMAIN tags : \E j \in DOMAIN tags : SameName(tags, i, j)

\* An alias that repeats the name of the onto tag it refers to.
RepeatsItsOnto(tags, j) ==
  /\ tags[j].name = "alt" /\ OntoFor(tags, j) # 0
  /\ Strip(tags[OntoFor(tags, j)].text) = Strip(tags[j].text)

HasOtherDuplicateName(tags) ==
  \E i \in DOMAIN tags : \E j \in DOMAIN tags :
    SameName(tags, i, j) /\ ~RepeatsItsOnto(tags, j)

Validated == lk.pc \in {"raised", "resolve"}

\* C18 as stated: validation raises for every answer with a name that occurs
\* twice, an alias without a resolved onto, or an empty name.
C18_MalformedRaises ==
  Validated /\ (HasDuplicateName(lk.tags) \/ HasUnresolvedAlias(lk.tags)
                  \/ HasEmptyName(lk.tags))
    => lk.err # ""

\* C18 amended: the same, but an alias that repeats the name of its own onto
\* tag is not a duplicate: it is dropped and validation goes on.
C18_MalformedRaisesAmended ==
  Validated /\ (HasOtherDuplicateName(lk.tags) \/ HasUnresolvedAlias(lk.tags)
                  \/ HasEmptyName(lk.tags))
    => lk.err # ""

C18_Witness ==
  /\ Validated /\ lk.err = "duplicate"
  /\ \E j \in DOMAIN lk.tags :
       /\ lk.tags[j].name = "alt" /\ OntoFor(lk.tags, j) # 0
       /\ ~RepeatsItsOnto(lk.tags, j)
       /\ \E i \in DOMAIN lk.tags : SameName(lk.tags, i, j) /\ lk.tags[i].name = "alt"
  /\ ~HasUnresolvedAlias(lk.tags) /\ ~HasEmptyName(lk.tags)

Filtered == hl.pc \in {"replace", "done"}

\* A match is wrapped when it is in filtered_matches after the filter loop.
Wrapped(m) == m \in Range(hl.filtered)

\* C19: of two candidate matches that overlap and differ in length, the shorter
\* one is never wrapped.
C19_ShorterNeverWrapped ==
  Filtered =>
    \A m \in Range(hl.matches) : \A n \in Range(hl.matches) :
      Overlap(m, n) /\ m.length < n.length => ~Wrapped(m)

\* The worked example of C19: "abcdef" with terms {"abc", "abcdef"}, in either
\* order of enumeration, is wrapped once around the whole string.
C19_AbcdefWrappedOnce ==
  hl.pc = "done" /\ hl.text = Abcdef /\ Range(hl.terms) = AbcdefTerms
    => hl.out = <<"<em>">> \o Abcdef \o <<"</em>">>

\* The documents the ranker has collected so far, or has returned.
Collected == IF rk.pc = "off" THEN {} ELSE Range(rk.connected)

\* C20: the list the ranker builds and returns never holds the document
\* titled like the seed and never holds a placeholder, whatever the order of
\* the scores.
C20_RankerExclusion ==
  \A d \in Collected : d.title # rk.title /\ d.kind = "article"

\* A ranking is returned although the seed or a placeholder had the highest
\* score and a placeholder was met before the article that is returned.
C20_Witness ==
  /\ rk.pc = "returned" /\ rk.result = "ok"
  /\ rk.connected # <<>>
  /\ Stored(gfile, blobs, rk.sorted_ppr[1]).kind = "proto_article"
  /\ rk.title \in Range(rk.sorted_ppr)
  /\ rk.article.kind = "article"

\* The graph the ranker took for ranking has no node for the seed title.
SeedNotInSnapshot == rk.pc # "off" /\ rk.snapshot /\ rk.title \notin rk.undirected.nodes

\* C21: a call of the ranker whose graph snapshot has no node for the seed
\* title ends with not-found (None), never with a ranking or another outcome.
C21_MissingSeedNotFound ==
  SeedNotInSnapshot /\ rk.pc = "returned" => rk.result = "None"

\* C22: the seed read, the graph snapshot and the document reads of one call
\* of the ranker all find the same store: no writer session takes effect
\* between them.
C22_OneConsistentView ==
  rk.pc # "off" => Cardinality(rk.views) <= 1

\* The step on which the session of p aborts, and the step on which the
\* aborted session leaves `async with self._lock`.
Aborts(p) == outcome[p] = "none" /\ outcome'[p] = "error"

LeavesAborted(p) == outcome[p] = "error" /\ pc[p] = "release" /\ pc'[p] = "idle"

\* C23: when a session aborts, and when it then leaves, the blobs stay as the
\* session left them (nothing is written back or restored) and the graph
\* file stays the one the session loaded.
C23_NoRollback ==
  [][\A p \in Procs :
       Aborts(p) \/ LeavesAborted(p) =>
         /\ blobs' = blobs
         /\ gfile' = gfile
         /\ pre[p].loaded => gfile = pre[p].gfile]_vars

\* A session has aborted after it deleted a blob: the blob is still gone and
\* the graph file is the one the session loaded, with the node.
C23_Witness ==
  \E p \in Procs :
    /\ outcome[p] = "error" /\ pc[p] = "release" /\ pre[p].loaded
    /\ gfile = pre[p].gfile
    /\ \E t \in Titles :
         /\ pre[p].blobs[t] # NoDoc /\ blobs[t] = NoDoc
         /\ has_node(SpaceRead(gfile), t)

\* The edges of G that are keyed by title.
KeyedBy(G, title) == {e \in G.edges : e.key = title}

\* C24: after a successful article-over-article upsert of A the edges keyed
\* by A are exactly the edges from A to the link targets of the new version.
C24_OldEdgesRemoved ==
  \A p \in Procs :
    FullOverFull(p) =>
      KeyedBy(NowG, op[p].doc.title)
        = {Edge(op[p].doc.title, t, op[p].doc.title) : t \in DOMAIN op[p].doc.links}

\* The edges of G that are keyed by another title.
KeyedByOthers(G, title) == G.edges \ KeyedBy(G, title)

\* C25: a successful upsert of a document titled A leaves the edges keyed by
\* every other title as they were when its session loaded the graph.
C25_OtherEdgesUntouched ==
  \A p \in Procs :
    Done(p) /\ op[p].type = "upsert" =>
      KeyedByOthers(NowG, op[p].doc.title) = KeyedByOthers(PreG(p), op[p].doc.title)

\* Article A was replaced by a version without its link to B while C links to
\* B and to A: the edges of C are still there.
C25_Witness ==
  \E p \in Procs :
    /\ FullOverFull(p) /\ op[p].doc.title = "A"
    /\ Edge("A", "B", "A") \in PreG(p).edges
    /\ "B" \notin DOMAIN op[p].doc.links
    /\ {Edge("C", "B", "C"), Edge("C", "A", "C")} \subseteq NowG.edges

\* A session that wrote an article with its edges has completed: write_doc
\* with write_graph, or an upsert of an article (docs.py 204, 214, 247).
WroteArticle(p) ==
  /\ Done(p)
  /\ \/ IsArticleUpsert(op[p])
     \/ op[p].type = "write" /\ op[p].wg /\ op[p].doc.kind = "article"

\* The clean-up of the session of p deleted the placeholder t before the
\* write: its only edge was the one of the replaced article (docs.py 236-244).
DeletedByCleanup(p, t) ==
  /\ FullOverFull(p)
  /\ PreRead(p, t).kind = "proto_article"
  /\ edges(PreG(p), t) = {Edge(op[p].doc.title, t, op[p].doc.title)}

\* What _read_doc returned for t when the write of the article began.
PreWrite(p, t) == IF DeletedByCleanup(p, t) THEN NoDoc ELSE PreRead(p, t)

LinkedTo(p, t) ==
  /\ has_node(NowG, t)
  /\ NowRead(t) # NoDoc
  /\ Edge(op[p].doc.title, t, op[p].doc.title) \in NowG.edges

\* C26 as stated: after the write of article A, every link target has a node,
\* a stored document and the edge keyed by A, and the link's alias set is
\* merged into the aliases of the target's document if it existed before.
C26_LinksWritten ==
  \A p \in Procs :
    WroteArticle(p) =>
      \A t \in DOMAIN op[p].doc.links :
        /\ LinkedTo(p, t)
        /\ PreWrite(p, t) # NoDoc =>
             PreWrite(p, t).alt_title \cup op[p].doc.links[t] \subseteq NowRead(t).alt_title

\* C26 amended: the alias set is merged when the target was stored as a
\* placeholder; a target stored as an article is kept as it was; a target that
\* was not stored becomes the placeholder of the link; the target that is A
\* itself is the article written.
C26_LinksWrittenAmended ==
  \A p \in Procs :
    WroteArticle(p) =>
      /\ NowRead(op[p].doc.title) = op[p].doc
      /\ \A t \in DOMAIN op[p].doc.links :
           /\ LinkedTo(p, t)
           /\ t # op[p].doc.title =>
                NowRead(t) =
                  CASE PreWrite(p, t) = NoDoc -> ProtoArticle(t, op[p].doc.links[t])
                    [] PreWrite(p, t).kind = "article" -> PreWrite(p, t)
                    [] OTHER ->
                         ProtoArticle(t, PreWrite(p, t).alt_title \cup op[p].doc.links[t])

\* An article was written whose link met a stored placeholder with other
\* aliases, and the placeholder now has both.
C26_Witness ==
  \E p \in Procs :
    /\ WroteArticle(p)
    /\ \E t \in DOMAIN op[p].doc.links \ {op[p].doc.title} :
         /\ PreWrite(p, t).kind = "proto_article"
         /\ ~(PreWrite(p, t).alt_title \subseteq op[p].doc.links[t])
         /\ NowRead(t).alt_title = PreWrite(p, t).alt_title \cup op[p].doc.links[t]

\* The ranker has returned a ranking.
Ranked == rk.pc = "returned" /\ rk.result = "ok"

\* The score of a node of the snapshot.
ScoreOf(t) == rk.scores[IndexOfNode(rk.sorted_ppr, t)]

\* The stored articles other than the seed that are nodes of the snapshot.
Eligible ==
  {t \in Range(rk.sorted_ppr) : t # rk.title /\ NowRead(t).kind = "article"}

Returned == {rk.connected[i].title : i \in DOMAIN rk.connected}

\* C27: the ranker returns at most top_k documents, in non-increasing order
\* of score, and no article other than the seed that it leaves out has a
\* strictly higher score than one it returns.
C27_TopK ==
  Ranked =>
    /\ Len(rk.connected) <= rk.top_k
    /\ \A i \in DOMAIN rk.connected : \A j \in DOMAIN rk.connected :
         i < j => ScoreOf(rk.connected[i].title) >= ScoreOf(rk.connected[j].title)
    /\ \A t \in Eligible \ Returned : \A r \in Returned : ScoreOf(t) <= ScoreOf(r)

\* The same for calls with top_k of at least 1.
C27_TopKPositive == rk.pc # "off" /\ rk.top_k >= 1 => C27_TopK

\* The nodes joined to one of S by a path of the undirected graph U.
RECURSIVE ReachFrom(_, _)
ReachFrom(U, S) ==
  LET N == S \cup {t \in U.nodes : \E e \in U.edges : t \in e /\ e \cap S # {}}
  IN IF N = S THEN S ELSE ReachFrom(U, N)

\* C28: every document the ranker returns has a title joined to the seed
\* title by a path in the undirected graph of the snapshot.
C28_OnlyConnected ==
  Ranked => Returned \subseteq ReachFrom(rk.undirected, {rk.title})

\* The alias list, after the fix-up, of the link named like the title: empty
\* when no link has the name.
TitleAliases ==
  IF lk.title \in NamesOf(lk.res)
    THEN Range(AlterList(lk.res[IndexOf(lk.res, lk.title)])) ELSE {}

\* C29 as stated: after link resolution the alias set of the article is the
\* alias list of the link named like its title.
C29_AliasesReplaced ==
  lk.pc = "done" => lk.alt_title = TitleAliases

\* C29 amended: the alias set is the one the article had before, together
\* with the alias list of the link named like its title.
C29_AliasesUpdated ==
  lk.pc = "done" => lk.alt_title = lk.alt_before \cup TitleAliases

\* An article that had the alias C is resolved with a title link that has
\* another alias: it has both afterwards.
C29_Witness ==
  /\ lk.pc = "done" /\ lk.alt_before = {"C"}
  /\ TitleAliases = {"B"}
  /\ lk.alt_title = {"B", "C"}

\* The canonical links after the fix-up, and the aliases that point to one.
Canonical == {i \in DOMAIN lk.res : lk.res[i].alt_of = None}

PointingTo(n) == {lk.res[j].name : j \in {k \in DOMAIN lk.res : lk.res[k].alt_of = n}}

\* C30: after link resolution the keys of the article's links are exactly the
\* names of the canonical links other than the title, each with the set of
\* the names that are aliases of it; no alias and not the title is a key.
C30_LinkEntries ==
  lk.pc = "done" =>
    /\ DOMAIN lk.links = {lk.res[i].name : i \in Canonical} \ {lk.title}
    /\ \A n \in DOMAIN lk.links : lk.links[n] = PointingTo(n)
    /\ \A i \in DOMAIN lk.res \ Canonical : lk.res[i].name \notin DOMAIN lk.links
    /\ lk.title \notin DOMAIN lk.links

\* A resolution with a link entry that has an alias, beside the title link.
C30_Witness ==
  /\ lk.pc = "done"
  /\ lk.title \in NamesOf(lk.res)
  /\ \E n \in DOMAIN lk.links : lk.links[n] # {} /\ lk.links[n] = PointingTo(n)

\* C31: in _gen_article the store is written, and a session on it is entered,
\* only after parse_links has returned; once parse_links has raised, no
\* upsert is issued and the graph file and the blobs stay as they are.
C31_UpsertAfterLinks ==
  [][/\ lk.pc # "done" =>
          /\ gfile' = gfile /\ blobs' = blobs
          /\ pc'[Writer] = "idle" /\ budget' = budget
     /\ lk.pc = "raised" => lk'.pc = "raised"]_vars

\* parse_links has returned an article with a link, and the upsert that
\* follows has stored it.
C31_Witness ==
  /\ lk.pc = "done" /\ DOMAIN lk.links # {}
  /\ pc[Writer] = "release" /\ outcome[Writer] = "ok"
  /\ blobs["A"] = GenArticle
  /\ gfile # pre[Writer].gfile

\* parse_links has raised on a store that holds documents.
C31_WitnessRaised ==
  /\ lk.pc = "raised" /\ blobs["A"].kind = "article" /\ budget = 1

\* The place of a match in the text, and the places of a set of matches.
Span(m) == <<m.start, m.end>>

Spans(S) == {Span(m) : m \in S}

\* The candidates are scanned by start offset ascending, then length descending.
Ordered(matches) ==
  \A i \in DOMAIN matches : \A j \in DOMAIN matches :
    i < j => \/ matches[i].start < matches[j].start
             \/ /\ matches[i].start = matches[j].start
                /\ matches[i].length >= matches[j].length

\* The reference scan of C32: a candidate is kept if and only if it overlaps
\* no candidate kept before it.
RECURSIVE Greedy(_, _, _)
Greedy(matches, i, kept) ==
  IF i > Len(matches) THEN kept
  ELSE Greedy(matches, i + 1,
              IF \E k \in kept : Overlap(matches[i], k) THEN kept
              ELSE kept \cup {matches[i]})

\* The scan in which a candidate that is longer than every kept candidate it
\* overlaps takes their place.
RECURSIVE GreedyLonger(_, _, _)
GreedyLonger(matches, i, kept) ==
  IF i > Len(matches) THEN kept
  ELSE LET m == matches[i]
           over == {k \in kept : Overlap(m, k)}
       IN GreedyLonger(matches, i + 1,
            IF over = {} THEN kept \cup {m}
            ELSE IF \A k \in over : m.length > k.length THEN (kept \ over) \cup {m}
            ELSE kept)

\* A candidate is longer than a candidate it overlaps that is scanned before it.
LongerComesLater(matches) ==
  \E i \in DOMAIN matches : \E j \in DOMAIN matches :
    i < j /\ Overlap(matches[i], matches[j]) /\ matches[j].length > matches[i].length

\* C32 as stated: the matches that are wrapped are those the reference scan keeps.
C32_EqualsGreedy ==
  Filtered =>
    /\ Ordered(hl.matches)
    /\ Spans(Range(hl.filtered)) = Spans(Greedy(hl.matches, 1, {}))

\* C32 amended: the matches that are wrapped are those of the scan in which a
\* longer candidate takes the place of the kept candidates it overlaps; they
\* are those of the reference scan when no candidate is longer than an
\* overlapping candidate scanned before it.
C32_EqualsGreedyLonger ==
  Filtered =>
    /\ Ordered(hl.matches)
    /\ Spans(Range(hl.filtered)) = Spans(GreedyLonger(hl.matches, 1, {}))
    /\ ~LongerComesLater(hl.matches) =>
         Spans(Range(hl.filtered)) = Spans(Greedy(hl.matches, 1, {}))

\* A kept candidate was dropped for a longer one: what is wrapped is not what
\* the reference scan keeps.
C32_Witness ==
  /\ hl.pc = "done"
  /\ \E m \in Greedy(hl.matches, 1, {}) : \E n \in Range(hl.filtered) :
       /\ Span(m) \notin Spans(Range(hl.filtered))
       /\ Overlap(m, n) /\ n.length > m.length /\ m.start < n.start

IsMarker(c) == c \in {"<em>", "</em>"}

\* The emphasis markers of a text, in their order.
Markers(out) == SelectSeq(out, IsMarker)

\* Markers neither nest nor interleave: they open and close in turn.
Flat(out) ==
  /\ Len(Markers(out)) % 2 = 0
  /\ \A k \in DOMAIN Markers(out) :
       Markers(out)[k] = IF k % 2 = 1 THEN "<em>" ELSE "</em>"

NotMarker(c) == ~IsMarker(c)

\* C33: the matches that are wrapped overlap in no pair, and the markers of the
\* output open and close in turn around the unchanged text.
C33_NoOverlap ==
  /\ Filtered =>
       \A i \in DOMAIN hl.filtered : \A j \in DOMAIN hl.filtered :
         i # j => ~Overlap(hl.filtered[i], hl.filtered[j])
  /\ hl.pc = "done" =>
       /\ Flat(hl.out)
       /\ Len(Markers(hl.out)) = 2 * Len(hl.filtered)
       /\ SelectSeq(hl.out, NotMarker) = hl.text

\* An accepted match was removed during the scan and two matches are wrapped.
C33_Witness ==
  /\ hl.pc = "done" /\ Len(hl.filtered) >= 2
  /\ \E m \in Range(hl.matches) : \E n \in Range(hl.filtered) :
       /\ m \in Greedy(hl.matches, 1, {}) /\ m \notin Range(hl.filtered)
       /\ Overlap(m, n) /\ n.length > m.length

\* C34: between successful upsert sessions, the edges keyed by a stored
\* article A all have A at one end, and their other ends are exactly the keys
\* of A.links.
C34_EdgesAreLinks ==
  Quiet =>
    \A t \in Titles :
      NowRead(t).kind = "article" =>
        /\ \A e \in KeyedBy(NowG, t) : t \in e.ends
        /\ {Target(e, t) : e \in KeyedBy(NowG, t)} = DOMAIN NowRead(t).links

\* After an upsert of A with the one link B, next to an article C that links
\* to A and to B.
C34_Witness ==
  /\ Quiet
  /\ hist.op.type = "upsert" /\ hist.op.doc.kind = "article"
  /\ hist.op.doc.title = "A" /\ DOMAIN hist.op.doc.links = {"B"}
  /\ NowRead("A") = hist.op.doc
  /\ NowRead("C").kind = "article" /\ DOMAIN NowRead("C").links = {"A", "B"}
  /\ budget = 0

\* The stored articles, other than `title`, that link to t.
LinkedByOthers(t, title) ==
  {x \in Titles \ {title} :
     NowRead(x).kind = "article" /\ t \in DOMAIN NowRead(x).links}

\* A step of task p deletes the blob of t.
DeletesBlob(p, t) ==
  /\ pc[p] \in Holding /\ pc'[p] \in Holding
  /\ blobs[t] # NoDoc /\ blobs'[t] = NoDoc

\* C35: between successful upsert sessions every link of a stored article
\* reads as a document, and the clean-up of an upsert never deletes a
\* placeholder that a stored article other than the upserted one links to.
C35_NoDanglingLinks ==
  /\ [](Quiet =>
          \A a \in Titles :
            NowRead(a).kind = "article" =>
              \A l \in DOMAIN NowRead(a).links : NowRead(l) # NoDoc)
  /\ [][\A p \in Procs : \A t \in Titles :
          DeletesBlob(p, t) => LinkedByOthers(t, op[p].doc.title) = {}]_vars

\* The upsert of a version of A without the link to placeholder B has ended,
\* and B, which article C links to as well, is still read as a placeholder.
C35_Witness ==
  \E p \in Procs :
    /\ FullOverFull(p) /\ op[p].doc.title = "A"
    /\ "B" \in DOMAIN PreRead(p, "A").links
    /\ "B" \notin DOMAIN op[p].doc.links
    /\ NowRead("C").kind = "article" /\ "B" \in DOMAIN NowRead("C").links
    /\ NowRead("B").kind = "proto_article"

\* The clean-up of an upsert of A has deleted placeholder B, which no other
\* stored article links to.
C35_WitnessDeleted ==
  \E p \in Procs :
    /\ FullOverFull(p) /\ op[p].doc.title = "A"
    /\ PreRead(p, "B").kind = "proto_article" /\ NowRead("B") = NoDoc
    /\ NowRead("C").kind = "article"

\* C36: a title that reads as an article reads as an article after every
\* step of a successful upsert session, and so after every sequence of them.
C36_ArticleStays ==
  [][\A x \in Titles :
       NowRead(x).kind = "article" => Stored(gfile', blobs', x).kind = "article"]_vars

\* The upsert of a version of C without its link to article A has ended: the
\* clean-up took A's last edge and A, with no edge, is still an article.
C36_Witness ==
  \E p \in Procs :
    /\ FullOverFull(p) /\ op[p].doc.title = "C"
    /\ "A" \in DOMAIN PreRead(p, "C").links
    /\ "A" \notin DOMAIN op[p].doc.links
    /\ PreRead(p, "A").kind = "article"
    /\ edges(NowG, "A") = {}
    /\ NowRead("A") = PreRead(p, "A")

\* A placeholder was upserted for the title of a stored article, which is
\* still read as the article.
C36_WitnessPlaceholder ==
  \E p \in Procs :
    /\ Done(p) /\ IsProtoUpsert(op[p])
    /\ PreRead(p, op[p].doc.title).kind = "article"
    /\ NowRead(op[p].doc.title) = PreRead(p, op[p].doc.title)

\* What other sessions have stored since task p loaded the graph.
StoredSinceLoad(p) ==
  [nodes |-> SpaceRead(gfile).nodes \ SpaceRead(pre[p].gfile).nodes,
   edges |-> SpaceRead(gfile).edges \ SpaceRead(pre[p].gfile).edges]

\* C37: when an upsert session stores its graph, every node and edge that
\* another session stored after this one loaded is in the graph it stores:
\* no stored change is overwritten by an older snapshot.
C37_NoLostUpdate ==
  [][\A p \in Procs :
       nstore'[p] > nstore[p] /\ op[p].type = "upsert" =>
         /\ StoredSinceLoad(p).nodes \subseteq gfile'.nodes
         /\ StoredSinceLoad(p).edges \subseteq gfile'.edges]_vars

\* C38: no step of a read_doc session or of the ranker, the rewrite of the
\* graph file at the end of each of their sessions included, changes the nodes
\* or the keyed edges of the stored graph or any blob.
C38_ReadOnly ==
  [][/\ gfile'.nodes = gfile.nodes
     /\ gfile'.edges = gfile.edges
     /\ blobs' = blobs]_vars

\* The ranker has returned an article and a read_doc session has stored the
\* graph, on a store with an edge.
C38_Witness ==
  /\ rk.pc = "returned" /\ rk.result = "ok" /\ Len(rk.connected) >= 1
  /\ pc[Reader] = "release" /\ nstore[Reader] = 1 /\ op[Reader].type = "read"
  /\ loc[Reader].result.kind = "article"
  /\ gfile.edges # {}

\* The ranker was called on a Space without a graph file: the file is there
\* afterwards, with an empty graph.
C38_WitnessNewFile ==
  /\ rk.pc = "returned" /\ rk.result = "None"
  /\ gfile = EmptyGraph /\ gfile # NoGraph

====
